---- MODULE Spec2Model ----
(***************************************************************************)
(* A model of src/Blender.py, the OpenWebUI action that extracts a Blender *)
(* model script from a chat message, posts it to a render server, caches   *)
(* the returned GLB and emits a display document for it.                   *)
(*                                                                         *)
(* Strings are sequences of tokens.  "\n" is a token of its own, so that   *)
(* str.split("\n") and "\n".join(...) are computed, not assumed.           *)
(***************************************************************************)
EXTENDS Integers, Sequences, FiniteSets, TLC

VARIABLES
    content,      \* SpecExtract: the argument of the outermost get_model_code call
    remaining,    \* SpecExtract: the argument of the call now running
    depth,        \* SpecExtract: number of get_model_code calls made so far
    result,       \* SpecExtract: the outcome of the outermost call, or NoResult
    outcome,      \* SpecRender: what the single POST to create_model comes back with
    rendered,     \* SpecRender: what render_model returned or raised, or NoResult
    ready,        \* the event loop's queue of handles that are ready to run
    sched,        \* per invocation: the coroutine is "running", is queued as "ready",
                  \* awaits "io" or a "task", or is "off"
    pc,           \* per invocation: the await at which Action.action is suspended
    args,         \* per invocation: the arguments of the call
    cancel,       \* per invocation: whether the host has cancelled the task of the call
    run,          \* per invocation: serial number of the invocation, 0 if none yet
    started,      \* number of invocations started so far
    msg_id,       \* per invocation: body["id"]
    chat_id,      \* per invocation: body["chat_id"]
    msg,          \* per invocation: the message get_msg found
    model_code,   \* per invocation: what get_model_code returned
    requests,     \* per invocation: the payloads POSTed to create_model
    response,     \* per invocation: what the POST came back with, or NoResult
    model,        \* per invocation: the bytes render_model returned
    glb_filename, \* per invocation: the filename generate_model_html chose
    model_html,   \* per invocation: the result of template_html
    tasks,        \* per invocation: state of the three asyncio tasks it created
    exc,          \* per invocation: the exception propagating out of action, if any
    events,       \* per invocation: the events handed to __event_emitter__, in order
    disk          \* the files under data/, path |-> file

extractVars == <<content, remaining, depth, result>>
renderVars == <<outcome, rendered>>
actionVars == <<ready, sched, pc, args, cancel, run, started, msg_id, chat_id, msg, model_code,
                requests, response, model, glb_filename, model_html, tasks, exc, events,
                disk>>

vars == <<content, remaining, depth, result, outcome, rendered, ready, sched, pc, args,
          cancel, run, started, msg_id, chat_id, msg, model_code, requests, response, model,
          glb_filename, model_html, tasks, exc, events, disk>>

-----------------------------------------------------------------------------
(* Bounds *)

\* Longest message, in lines, given to get_model_code.
MaxLines == 6

\* Most invocations of Action.action started in one behaviour.
MaxRuns == 3

\* The invocations that may be in progress at the same time.
Invocations == {1, 2}

-----------------------------------------------------------------------------
(* Strings *)

NL == "\n"
\* The fence token stands for the three backquotes of a Markdown fence.
Fence == "FENCE"
Opener == <<Fence, "python">>
Closer == <<Fence>>
Marker == "def model("

\* The lines messages are built from: the two fence lines, a line that
\* declares the entry point, a line of other text, and the empty line.
Lines == {Opener, Closer, <<Marker, "):">>, <<"pass">>, <<>>}

RECURSIVE Split(_)
\* str.split("\n")
Split(s) ==
    IF \A i \in 1..Len(s) : s[i] # NL
    THEN <<s>>
    ELSE LET i == CHOOSE k \in 1..Len(s) :
                      s[k] = NL /\ \A j \in 1..(k - 1) : s[j] # NL
         IN  <<SubSeq(s, 1, i - 1)>> \o Split(SubSeq(s, i + 1, Len(s)))

RECURSIVE Join(_)
\* "\n".join(lines)
Join(lines) ==
    IF lines = <<>> THEN <<>>
    ELSE IF Len(lines) = 1 THEN lines[1]
    ELSE lines[1] \o <<NL>> \o Join(Tail(lines))

\* list.index(x), 1-based; 0 stands for the ValueError of a missing element.
Index(lines, x) ==
    IF \E i \in 1..Len(lines) : lines[i] = x
    THEN CHOOSE i \in 1..Len(lines) :
             lines[i] = x /\ \A j \in 1..(i - 1) : lines[j] # x
    ELSE 0

\* Mutant of HasMarker: every block passes for one with the entry point.
HasMarker_Always(s) == TRUE

\* "def model(" in code_block
HasMarker(s) == \E i \in 1..Len(s) : s[i] = Marker

-----------------------------------------------------------------------------
(* get_model_code *)

\* No outcome yet.
NoResult == [kind |-> "none", value |-> <<>>]

\* Mutant of GetModelCodeCall: a rejected block ends the search with
\* ValueError instead of a re-scan of the text after it.
GetModelCodeCall_NoBacktrack(c) ==
    IF c = <<>>
    THEN [kind |-> "return", value |-> <<>>]
    ELSE LET lines == Split(c)
             code_start == Index(lines, Opener)
             code_end == Index(lines, Closer)
         IN  IF code_start = 0 \/ code_end = 0
             THEN [kind |-> "raise", value |-> <<"ValueError">>]
             ELSE IF code_start < code_end
                  THEN LET code_block == Join(SubSeq(lines, code_start + 1, code_end - 1))
                       IN  IF HasMarker(code_block)
                           THEN [kind |-> "return", value |-> code_block]
                           ELSE [kind |-> "raise", value |-> <<"ValueError">>]
                  ELSE [kind |-> "recurse",
                        value |-> Join(SubSeq(lines, code_start + 1, Len(lines)))]

\* Mutant of GetModelCodeCall: a missing fence line is answered with the
\* empty string instead of ValueError.
GetModelCodeCall_MissingFenceReturnsEmpty(c) ==
    IF c = <<>>
    THEN [kind |-> "return", value |-> <<>>]
    ELSE LET lines == Split(c)
             code_start == Index(lines, Opener)
             code_end == Index(lines, Closer)
         IN  IF code_start = 0 \/ code_end = 0
             THEN [kind |-> "return", value |-> <<>>]
             ELSE IF code_start < code_end
                  THEN LET code_block == Join(SubSeq(lines, code_start + 1, code_end - 1))
                       IN  IF HasMarker(code_block)
                           THEN [kind |-> "return", value |-> code_block]
                           ELSE [kind |-> "recurse",
                                 value |-> Join(SubSeq(lines, code_end + 1, Len(lines)))]
                  ELSE [kind |-> "recurse",
                        value |-> Join(SubSeq(lines, code_start + 1, Len(lines)))]

\* Mutant of GetModelCodeCall: a closer before the opener makes the call
\* recurse on the text from the closer on, the closer included.
GetModelCodeCall_KeepsCloser(c) ==
    IF c = <<>>
    THEN [kind |-> "return", value |-> <<>>]
    ELSE LET lines == Split(c)
             code_start == Index(lines, Opener)
             code_end == Index(lines, Closer)
         IN  IF code_start = 0 \/ code_end = 0
             THEN [kind |-> "raise", value |-> <<"ValueError">>]
             ELSE IF code_start < code_end
                  THEN LET code_block == Join(SubSeq(lines, code_start + 1, code_end - 1))
                       IN  IF HasMarker(code_block)
                           THEN [kind |-> "return", value |-> code_block]
                           ELSE [kind |-> "recurse",
                                 value |-> Join(SubSeq(lines, code_end + 1, Len(lines)))]
                  ELSE [kind |-> "recurse",
                        value |-> Join(SubSeq(lines, code_end, Len(lines)))]

\* One call of get_model_code up to its return, raise or recursive call.
GetModelCodeCall(c) ==
    IF c = <<>>
    THEN [kind |-> "return", value |-> <<>>]
    ELSE LET lines == Split(c)
             code_start == Index(lines, Opener)
             code_end == Index(lines, Closer)
         IN  IF code_start = 0 \/ code_end = 0
             THEN [kind |-> "raise", value |-> <<"ValueError">>]
             ELSE IF code_start < code_end
                  THEN LET code_block == Join(SubSeq(lines, code_start + 1, code_end - 1))
                       IN  IF HasMarker(code_block)
                           THEN [kind |-> "return", value |-> code_block]
                           ELSE [kind |-> "recurse",
                                 value |-> Join(SubSeq(lines, code_end + 1, Len(lines)))]
                  ELSE [kind |-> "recurse",
                        value |-> Join(SubSeq(lines, code_start + 1, Len(lines)))]

RECURSIVE GetModelCode(_)
\* The whole recursion: what the outermost call returns or raises.
GetModelCode(c) ==
    LET r == GetModelCodeCall(c)
    IN  IF r.kind = "recurse" THEN GetModelCode(r.value) ELSE r

-----------------------------------------------------------------------------
(* render_model *)

\* The fields a JSON error body may carry.
ErrorFields == {"error", "details", "blender_log"}

\* Response bodies.  `raw` is the body as sent (response.content and
\* response.text); `json` is what response.json() yields: an object (a function
\* from field names to strings), another JSON value, or no JSON at all.
ObjectBodies ==
    {[raw |-> <<"object", fs>>, json |-> "object",
      fields |-> [f \in fs |-> <<"value of ", f>>]] : fs \in SUBSET ErrorFields}

OtherJsonBodies ==
    {[raw |-> <<"[]">>, json |-> "array", fields |-> <<>>],
     [raw |-> <<"null">>, json |-> "null", fields |-> <<>>]}

NonJsonBodies ==
    {[raw |-> <<"<html>Bad Gateway</html>">>, json |-> "JSONDecodeError", fields |-> <<>>],
     [raw |-> <<"glTF", "bytes">>, json |-> "JSONDecodeError", fields |-> <<>>]}

Bodies == ObjectBodies \cup OtherJsonBodies \cup NonJsonBodies

Statuses == {200, 204, 299, 300, 302, 399, 400, 404, 499, 500, 502, 599, 600}

\* What `await client.post(...)` ends with: an httpx.RequestError, or a response.
TransportFailures ==
    {[kind |-> "RequestError", text |-> <<t>>] : t \in {"ConnectError", "ReadTimeout"}}

Responses ==
    {[kind |-> "response", status_code |-> st, body |-> b] : st \in Statuses, b \in Bodies}

Outcomes == TransportFailures \cup Responses

BlenderRenderError(message, details, blender_log) ==
    [kind |-> "raise", exc |-> "BlenderRenderError",
     message |-> message, details |-> details, blender_log |-> blender_log]

Raise(e) ==
    [kind |-> "raise", exc |-> e, message |-> <<>>, details |-> <<>>,
     blender_log |-> <<>>]

\* dict.get(key, default)
Get(fields, key, default) ==
    IF key \in DOMAIN fields THEN fields[key] ELSE default

Guidance ==
    <<"Could not connect to the Blender render server. Please check that it's running.">>

\* Mutant of RaiseForStatusRaises: no status raises.
RaiseForStatusRaises_Never(status_code) == FALSE

\* response.raise_for_status(): httpx raises HTTPStatusError unless the
\* status is a success status, 200..299.
RaiseForStatusRaises(status_code) == ~(200 <= status_code /\ status_code <= 299)

\* Mutant of RenderModel: raise_for_status is left out.
RenderModel_NoRaiseForStatus(o) ==
    IF o.kind = "RequestError"
    THEN BlenderRenderError(<<"Network error: ">> \o o.text, Guidance, <<>>)
    ELSE IF 400 <= o.status_code /\ o.status_code < 600
         THEN IF o.body.json = "JSONDecodeError"
              THEN BlenderRenderError(<<"HTTP ", ToString(o.status_code)>>, o.body.raw, <<>>)
              ELSE IF o.body.json = "object"
                   THEN BlenderRenderError(
                            Get(o.body.fields, "error", <<"Unknown error">>),
                            Get(o.body.fields, "details", <<>>),
                            Get(o.body.fields, "blender_log", <<>>))
                   ELSE Raise("AttributeError")
         ELSE [kind |-> "return", value |-> o.body.raw]

\* render_model from the end of the POST on: the value returned or the
\* exception that leaves the function.
RenderModel(o) ==
    IF o.kind = "RequestError"
    THEN BlenderRenderError(<<"Network error: ">> \o o.text, Guidance, <<>>)
    ELSE IF 400 <= o.status_code /\ o.status_code < 600
         THEN IF o.body.json = "JSONDecodeError"
              THEN BlenderRenderError(<<"HTTP ", ToString(o.status_code)>>, o.body.raw, <<>>)
              ELSE IF o.body.json = "object"
                   THEN BlenderRenderError(
                            Get(o.body.fields, "error", <<"Unknown error">>),
                            Get(o.body.fields, "details", <<>>),
                            Get(o.body.fields, "blender_log", <<>>))
                   ELSE Raise("AttributeError")
         ELSE IF RaiseForStatusRaises(o.status_code)
              THEN Raise("HTTPStatusError")
              ELSE [kind |-> "return", value |-> o.body.raw]

-----------------------------------------------------------------------------
(* The cache directory, filenames and documents *)

\* self.cache
Cache == <<"cache/blender_render/">>

\* Path("data") / self.cache / "models"
ModelCache == <<"data/">> \o Cache \o <<"models/">>

\* The names of the files in directory dir of disk d.
FilesIn(d, dir) ==
    {SubSeq(p, Len(dir) + 1, Len(p)) :
        p \in {q \in DOMAIN d : Len(q) > Len(dir) /\ SubSeq(q, 1, Len(dir)) = dir}}

\* Mutant of GlobMatches: the glob counts the converted files.
GlobMatches_WrongSuffix(chat, mid, name) ==
    LET prefix == chat \o <<"-model-">> \o mid
    IN  /\ Len(name) > Len(prefix)
        /\ SubSeq(name, 1, Len(prefix)) = prefix
        /\ name[Len(name)] = ".obj"

\* Whether a filename matches the glob f"{chat_id}-model-{msg_id}*.glb".
GlobMatches(chat, mid, name) ==
    LET prefix == chat \o <<"-model-">> \o mid
    IN  /\ Len(name) > Len(prefix)
        /\ SubSeq(name, 1, Len(prefix)) = prefix
        /\ name[Len(name)] = ".glb"

\* len([*model_cache.glob(f"{chat_id}-model-{msg_id}*.glb")])
ExistingModels(d, chat, mid) ==
    Cardinality({name \in FilesIn(d, ModelCache) : GlobMatches(chat, mid, name)})

\* f"{chat_id}-model-{msg_id}-{existing_models}.glb"
GlbFilename(chat, mid, existing_models) ==
    chat \o <<"-model-">> \o mid \o <<"-", ToString(existing_models), ".glb">>

\* (model_cache / glb_filename).resolve().relative_to(Path().resolve())
GlbFilepath(name) == ModelCache \o name

\* glb_path.with_suffix(".obj")
WithSuffixObj(path) == SubSeq(path, 1, Len(path) - 1) \o <<".obj">>

\* obj_path.relative_to(Path("data"))
RelativeToData(path) == SubSeq(path, 2, Len(path))

HtmlHead == "<script ...></script><model-viewer src=\""
HtmlTail == "\" id=\"mv\" ...></model-viewer>"

\* Mutant of TemplateHtml: the src leaves out the models directory.
TemplateHtml_WrongDirectory(name) ==
    <<HtmlHead>> \o (<<"/">> \o Cache \o name) \o <<HtmlTail>>

\* template_html: the document, with src = f"/{self.cache}models/{glb_filename}".
TemplateHtml(name) ==
    <<HtmlHead>> \o (<<"/">> \o Cache \o <<"models/">> \o name) \o <<HtmlTail>>

\* The disk with file f at path p, created or replaced.
WriteFile(d, p, f) == [q \in DOMAIN d \cup {p} |-> IF q = p THEN f ELSE d[q]]

\* Mutant of WriteModelToCache: a failed write is not reported to the caller.
WriteModelToCache_FailureSwallowed(d, path, bytes, how) ==
    IF how = "ok"
    THEN [disk |-> WriteFile(d, path, [state |-> "complete", bytes |-> bytes]),
          task |-> "done"]
    ELSE IF how = "open fails"
    THEN [disk |-> d, task |-> "done"]
    ELSE [disk |-> WriteFile(d, path, [state |-> "partial", bytes |-> <<>>]),
          task |-> "done"]

\* write_model_to_cache: open(..., "wb") truncates or creates the file, write
\* fills it.  Either may fail with OSError, which ends the task as failed.
WriteModelToCache(d, path, bytes, how) ==
    IF how = "ok"
    THEN [disk |-> WriteFile(d, path, [state |-> "complete", bytes |-> bytes]),
          task |-> "done"]
    ELSE IF how = "open fails"
    THEN [disk |-> d, task |-> "failed"]
    ELSE [disk |-> WriteFile(d, path, [state |-> "partial", bytes |-> <<>>]),
          task |-> "failed"]

WriteOutcomes == {"ok", "open fails", "write fails"}

-----------------------------------------------------------------------------
(* Events *)

Status(description, done) ==
    [type |-> "status", data |-> [description |-> description, done |-> done]]

\* The message that carries the display document.
DocumentMessage(html) ==
    [type |-> "message",
     data |-> [description |-> "A 3d model rendered based on the blender code provided.",
               content |-> <<"\n\n[fence]html\n">> \o html \o <<"\n[fence]\n">>]]

\* The message that carries the download link.
LinkMessage(obj_endpoint) ==
    [type |-> "message",
     data |-> [description |-> "A 3d model rendered based on the blender code provided.",
               content |-> <<"\n[Download model](/">> \o obj_endpoint \o <<")\n">>]]

\* Mutant of ErrorMessage: the message does not carry the fields of the error.
ErrorMessage_Generic(error) ==
    [type |-> "message",
     data |-> [description |-> "Error rendering 3d model",
               content |-> <<"\n## Error Rendering Blender Model\n...\n">>,
               role |-> "assistant"]]

\* The message that reports a BlenderRenderError.
ErrorMessage(error) ==
    [type |-> "message",
     data |-> [description |-> "Error rendering 3d model",
               content |-> <<"\n## Error Rendering Blender Model\n...\n[fence]\n">>
                              \o error.message
                              \o <<"\n\n[fence]\n\n### Details\n">>
                              \o error.details
                              \o <<"\n\n### Blender Log\n[fence]\n">>
                              \o error.blender_log
                              \o <<"\n[fence]\n\nWould you like me to correct this error?\n">>,
               role |-> "assistant"]]

IsDocument(e) == e.type = "message" /\ e.data.content[1] = "\n\n[fence]html\n"
IsLink(e) == e.type = "message" /\ e.data.content[1] = "\n[Download model](/"
IsError(e) == e.type = "message" /\ e.data.description = "Error rendering 3d model"

\* The src attribute of a display document.
DocumentSrc(e) ==
    LET c == e.data.content
        a == CHOOSE k \in 1..Len(c) : c[k] = HtmlHead
        b == CHOOSE k \in 1..Len(c) : c[k] = HtmlTail
    IN  SubSeq(c, a + 1, b - 1)

\* Whether sequence part occurs in sequence whole.
Contains(whole, part) ==
    \E k \in 0..(Len(whole) - Len(part)) : SubSeq(whole, k + 1, k + Len(part)) = part

-----------------------------------------------------------------------------
(* Inputs of Action.action *)

\* The (chat_id, msg_id) pairs invocations are made for: a message, a message
\* of the same chat whose id extends the first one's, and a message with the
\* first one's id in another chat.
Keys ==
    {[chat_id |-> <<"c", "1">>, id |-> <<"m", "1">>],
     [chat_id |-> <<"c", "1">>, id |-> <<"m", "1", "0">>],
     [chat_id |-> <<"c", "2">>, id |-> <<"m", "1">>]}

\* The id of a message no invocation is made for.
OtherMsgId == <<"m", "2">>

MarkerLine == <<Marker, "):">>

\* Message contents the invocations run on: empty, text only, an opener with no
\* closer, a rejected block, a rejected block with text after it, a rejected
\* block followed by a valid one.
ActionContents ==
    {Join(<<<<>>>>),
     Join(<<<<"pass">>>>),
     Join(<<Opener, MarkerLine>>),
     Join(<<Opener, <<"pass">>, Closer>>),
     Join(<<Opener, <<"pass">>, Closer, <<"pass">>>>),
     Join(<<Opener, Closer, Opener, MarkerLine, <<"pass">>, Closer>>)}

\* body["messages"] for a body whose id is mid: the message after another one,
\* or the other one alone.
MessageLists(mid) ==
    {<<[id |-> OtherMsgId, content |-> <<>>], [id |-> mid, content |-> c]>> :
         c \in ActionContents}
    \cup {<<[id |-> OtherMsgId, content |-> <<>>]>>}

BodyInputs ==
    UNION {{[id |-> k.id, chat_id |-> k.chat_id, messages |-> ms] :
               ms \in MessageLists(k.id)} : k \in Keys}

NoMsg == [id |-> <<>>, content |-> <<>>]

\* get_msg: the first message with the id, or NoMsg for the ValueError.
GetMsg(messages, mid) ==
    IF \E k \in 1..Len(messages) : messages[k].id = mid
    THEN messages[CHOOSE k \in 1..Len(messages) :
                      messages[k].id = mid /\ \A j \in 1..(k - 1) : messages[j].id # mid]
    ELSE NoMsg

\* What the POST of invocation number r may come back with.
ActionOutcomes(r) ==
    {[kind |-> "RequestError", text |-> <<"ConnectError">>],
     [kind |-> "response", status_code |-> 500,
      body |-> [raw |-> <<"object", ErrorFields>>, json |-> "object",
                fields |-> [f \in ErrorFields |-> <<"value of ", f>>]]],
     [kind |-> "response", status_code |-> 502,
      body |-> [raw |-> <<"<html>Bad Gateway</html>">>, json |-> "JSONDecodeError",
                fields |-> <<>>]],
     [kind |-> "response", status_code |-> 500,
      body |-> [raw |-> <<"[]">>, json |-> "array", fields |-> <<>>]],
     [kind |-> "response", status_code |-> 302,
      body |-> [raw |-> <<"<html>Found</html>">>, json |-> "JSONDecodeError",
                fields |-> <<>>]],
     [kind |-> "response", status_code |-> 200,
      body |-> [raw |-> <<"glTF", r>>, json |-> "JSONDecodeError", fields |-> <<>>]]}

NoTasks == [write |-> "none", template |-> "none", conversion |-> "none"]

-----------------------------------------------------------------------------
(* The state of the parts a specification leaves alone *)

ExtractIdle ==
    /\ content = <<>>
    /\ remaining = <<>>
    /\ depth = 0
    /\ result = NoResult

RenderIdle ==
    /\ outcome = NoResult
    /\ rendered = NoResult

NoArgs == [body |-> [id |-> <<>>, chat_id |-> <<>>, messages |-> <<>>], event_call |-> "None"]

ActionIdle ==
    /\ ready = <<>>
    /\ sched = [i \in Invocations |-> "off"]
    /\ pc = [i \in Invocations |-> "idle"]
    /\ args = [i \in Invocations |-> NoArgs]
    /\ cancel = [i \in Invocations |-> "no"]
    /\ run = [i \in Invocations |-> 0]
    /\ started = 0
    /\ msg_id = [i \in Invocations |-> <<>>]
    /\ chat_id = [i \in Invocations |-> <<>>]
    /\ msg = [i \in Invocations |-> NoMsg]
    /\ model_code = [i \in Invocations |-> <<>>]
    /\ requests = [i \in Invocations |-> <<>>]
    /\ response = [i \in Invocations |-> NoResult]
    /\ model = [i \in Invocations |-> <<>>]
    /\ glb_filename = [i \in Invocations |-> <<>>]
    /\ model_html = [i \in Invocations |-> <<>>]
    /\ tasks = [i \in Invocations |-> NoTasks]
    /\ exc = [i \in Invocations |-> "none"]
    /\ events = [i \in Invocations |-> <<>>]
    /\ disk = <<>>

-----------------------------------------------------------------------------
(* SpecExtract: get_model_code run call by call on every bounded message *)

RECURSIVE LineSeqs(_)
LineSeqs(n) ==
    IF n = 0 THEN {<<>>}
    ELSE LET shorter == LineSeqs(n - 1)
         IN  shorter \cup {<<l>> \o ls : l \in Lines, ls \in {x \in shorter : Len(x) = n - 1}}

\* Every message of at most MaxLines lines.
Contents == {Join(ls) : ls \in LineSeqs(MaxLines) \ {<<>>}}

\* Text lines: the lines that are no fence.
TextLines == Lines \ {Opener, Closer}

\* Zero or one line of text.
ShortTexts == {<<>>} \cup {<<l>> : l \in TextLines}

\* Messages of the shape text, rejected block, text, valid block, text.
PairContents ==
    {Join(before \o <<Opener>> \o rejected \o <<Closer>> \o between
          \o <<Opener>> \o valid \o <<Closer>> \o after) :
        before \in ShortTexts, between \in ShortTexts, after \in ShortTexts,
        rejected \in {<<>>, <<<<"pass">>>>, <<<<>>>>},
        valid \in {<<<<Marker, "):">>>>, <<<<Marker, "):">>, <<"pass">>>>}}

InitExtract ==
    /\ content \in Contents \cup PairContents
    /\ remaining = content
    /\ depth = 0
    /\ result = NoResult
    /\ RenderIdle
    /\ ActionIdle

GetModelCodeStep ==
    /\ result = NoResult
    /\ LET r == GetModelCodeCall(remaining)
       IN  /\ depth' = depth + 1
           /\ IF r.kind = "recurse"
              THEN remaining' = r.value /\ result' = result
              ELSE remaining' = remaining /\ result' = r
    /\ UNCHANGED <<content, renderVars, actionVars>>

NextExtract == GetModelCodeStep

SpecExtract == InitExtract /\ [][NextExtract]_vars

-----------------------------------------------------------------------------
(* SpecRender: render_model on every outcome of the POST *)

InitRender ==
    /\ outcome \in Outcomes
    /\ rendered = NoResult
    /\ ExtractIdle
    /\ ActionIdle

RenderModelStep ==
    /\ rendered = NoResult
    /\ rendered' = RenderModel(outcome)
    /\ UNCHANGED <<outcome, extractVars, actionVars>>

NextRender == RenderModelStep

SpecRender == InitRender /\ [][NextRender]_vars

-----------------------------------------------------------------------------
(* Spec: invocations of Action.action on one asyncio event loop.  The loop  *)
(* runs the handle at the head of its ready queue; a coroutine runs from    *)
(* one await that suspends it to the next.                                  *)

Init ==
    /\ ActionIdle
    /\ ExtractIdle
    /\ RenderIdle

Main(i) == [inv |-> i, task |-> "main"]
Task(i, t) == [inv |-> i, task |-> t]

\* The event loop runs the coroutine of invocation i, suspended at await at.
Resumes(i, at) ==
    /\ ready # <<>>
    /\ Head(ready) = Main(i)
    /\ cancel[i] # "requested"
    /\ pc[i] = at

\* The ready queue once the running coroutine awaits the emitter: it leaves
\* the queue if the emitter suspends it, and runs on if the emitter does not.
AfterEmit(i, suspends) == IF suspends THEN Tail(ready) ELSE ready

Emit(i, e) == events' = [events EXCEPT ![i] = Append(@, e)]

\* Mutant of RaiseThroughFinally: the exception leaves action at once.
RaiseThroughFinally_NoFinalStatus(i, e, suspends) ==
    /\ exc' = [exc EXCEPT ![i] = e]
    /\ pc' = [pc EXCEPT ![i] = "raised"]
    /\ ready' = Tail(ready)
    /\ sched' = [sched EXCEPT ![i] = "off"]
    /\ UNCHANGED events

\* Lines 231-237: the exception leaves the try block: the finally clause emits
\* the closing status, and the exception is raised again after that await.
RaiseThroughFinally(i, e, suspends) ==
    /\ exc' = [exc EXCEPT ![i] = e]
    /\ Emit(i, Status("Displaying 3d model...", TRUE))
    /\ pc' = [pc EXCEPT ![i] = "emitted final status"]
    /\ ready' = AfterEmit(i, suspends)
    /\ sched' = [sched EXCEPT ![i] = IF suspends THEN "io" ELSE "running"]

\* The host calls action: the call is queued on the event loop.
Call(i, body, event_call) ==
    /\ started < MaxRuns
    /\ started' = started + 1
    /\ run' = [run EXCEPT ![i] = started + 1]
    /\ args' = [args EXCEPT ![i] = [body |-> body, event_call |-> event_call]]
    /\ msg_id' = [msg_id EXCEPT ![i] = <<>>]
    /\ chat_id' = [chat_id EXCEPT ![i] = <<>>]
    /\ msg' = [msg EXCEPT ![i] = NoMsg]
    /\ model_code' = [model_code EXCEPT ![i] = <<>>]
    /\ requests' = [requests EXCEPT ![i] = <<>>]
    /\ response' = [response EXCEPT ![i] = NoResult]
    /\ model' = [model EXCEPT ![i] = <<>>]
    /\ glb_filename' = [glb_filename EXCEPT ![i] = <<>>]
    /\ model_html' = [model_html EXCEPT ![i] = <<>>]
    /\ tasks' = [tasks EXCEPT ![i] = NoTasks]
    /\ exc' = [exc EXCEPT ![i] = "none"]
    /\ events' = [events EXCEPT ![i] = <<>>]
    /\ pc' = [pc EXCEPT ![i] = "called"]
    /\ ready' = Append(ready, Main(i))
    /\ sched' = [sched EXCEPT ![i] = "ready"]
    /\ cancel' = [cancel EXCEPT ![i] = "no"]
    /\ UNCHANGED <<disk, extractVars, renderVars>>

\* The first call of invocation i.  The invocations are numbered in the order
\* of their calls.
Start(i, body, event_call) ==
    /\ pc[i] = "idle"
    /\ \A j \in Invocations : j < i => pc[j] # "idle"
    /\ Call(i, body, event_call)

\* The host calls action again after the call before has ended.
StartAgain(i, body, event_call) ==
    /\ pc[i] \in {"returned", "raised"}
    /\ Call(i, body, event_call)

\* An await of the emitter that suspended the coroutine returns.
EmitterReturns(i) ==
    /\ sched[i] = "io"
    /\ pc[i] # "posted"
    /\ ready' = Append(ready, Main(i))
    /\ sched' = [sched EXCEPT ![i] = "ready"]
    /\ UNCHANGED <<pc, run, started, args, msg_id, chat_id, msg, model_code, requests,
                   response, model, glb_filename, model_html, tasks, exc, events, disk,
                   cancel, extractVars, renderVars>>

\* Lines 112-127: get_msg, the check of __event_call__ and the first status.
Begin(i, suspends) ==
    /\ Resumes(i, "called")
    /\ msg_id' = [msg_id EXCEPT ![i] = args[i].body.id]
    /\ chat_id' = [chat_id EXCEPT ![i] = args[i].body.chat_id]
    /\ msg' = [msg EXCEPT ![i] = GetMsg(args[i].body.messages, args[i].body.id)]
    /\ IF GetMsg(args[i].body.messages, args[i].body.id) = NoMsg
       THEN /\ exc' = [exc EXCEPT ![i] = "ValueError"]
            /\ pc' = [pc EXCEPT ![i] = "raised"]
            /\ ready' = Tail(ready)
            /\ sched' = [sched EXCEPT ![i] = "off"]
            /\ UNCHANGED events
       ELSE IF args[i].event_call = "None"
       THEN /\ exc' = [exc EXCEPT ![i] = "TypeError"]
            /\ pc' = [pc EXCEPT ![i] = "raised"]
            /\ ready' = Tail(ready)
            /\ sched' = [sched EXCEPT ![i] = "off"]
            /\ UNCHANGED events
       ELSE /\ Emit(i, Status("Writing 3d model code...", FALSE))
            /\ pc' = [pc EXCEPT ![i] = "emitted writing"]
            /\ ready' = AfterEmit(i, suspends)
            /\ sched' = [sched EXCEPT ![i] = IF suspends THEN "io" ELSE "running"]
            /\ UNCHANGED exc
    /\ UNCHANGED <<run, started, args, model_code, requests, response, model,
                   glb_filename, model_html, tasks, disk, cancel, extractVars, renderVars>>

\* Lines 128-134: get_model_code, then the status that closes the extraction.
ExtractModelCode(i, suspends) ==
    /\ Resumes(i, "emitted writing")
    /\ LET r == GetModelCode(msg[i].content)
       IN  IF r.kind = "raise"
           THEN /\ exc' = [exc EXCEPT ![i] = "ValueError"]
                /\ pc' = [pc EXCEPT ![i] = "raised"]
                /\ ready' = Tail(ready)
                /\ sched' = [sched EXCEPT ![i] = "off"]
                /\ UNCHANGED <<model_code, events>>
           ELSE /\ model_code' = [model_code EXCEPT ![i] = r.value]
                /\ Emit(i, Status("Writing 3d model code...", TRUE))
                /\ pc' = [pc EXCEPT ![i] = "emitted written"]
                /\ ready' = AfterEmit(i, suspends)
                /\ sched' = [sched EXCEPT ![i] = IF suspends THEN "io" ELSE "running"]
                /\ UNCHANGED exc
    /\ UNCHANGED <<run, started, args, msg_id, chat_id, msg, requests, response, model,
                   glb_filename, model_html, tasks, disk, cancel, extractVars, renderVars>>

\* Lines 136-152: the status of the early return on an empty result, or the
\* status that opens the rendering.
CheckModelCode(i, suspends) ==
    /\ Resumes(i, "emitted written")
    /\ IF model_code[i] = <<>>
       THEN /\ Emit(i, Status("No model code found!", TRUE))
            /\ pc' = [pc EXCEPT ![i] = "emitted no code"]
       ELSE /\ Emit(i, Status("Rendering 3d model...", FALSE))
            /\ pc' = [pc EXCEPT ![i] = "emitted rendering"]
    /\ ready' = AfterEmit(i, suspends)
    /\ sched' = [sched EXCEPT ![i] = IF suspends THEN "io" ELSE "running"]
    /\ UNCHANGED <<run, started, args, msg_id, chat_id, msg, model_code, requests,
                   response, model, glb_filename, model_html, tasks, exc, disk,
                   cancel, extractVars, renderVars>>

\* Line 144: return.
ReturnNoCode(i) ==
    /\ Resumes(i, "emitted no code")
    /\ pc' = [pc EXCEPT ![i] = "returned"]
    /\ ready' = Tail(ready)
    /\ sched' = [sched EXCEPT ![i] = "off"]
    /\ UNCHANGED <<run, started, args, msg_id, chat_id, msg, model_code, requests,
                   response, model, glb_filename, model_html, tasks, exc, events, disk,
                   cancel, extractVars, renderVars>>

\* Lines 154-157, 331-332 and 357-366: into the try block and render_model, up
\* to the await of client.post, which suspends the coroutine.
PostCreateModel(i) ==
    /\ Resumes(i, "emitted rendering")
    /\ requests' = [requests EXCEPT ![i] = Append(@, [model_code |-> model_code[i]])]
    /\ pc' = [pc EXCEPT ![i] = "posted"]
    /\ ready' = Tail(ready)
    /\ sched' = [sched EXCEPT ![i] = "io"]
    /\ UNCHANGED <<run, started, args, msg_id, chat_id, msg, model_code, response, model,
                   glb_filename, model_html, tasks, exc, events, disk, cancel, extractVars,
                   renderVars>>

\* The POST ends: a response arrives, or the transport fails.
PostEnds(i, o) ==
    /\ sched[i] = "io"
    /\ pc[i] = "posted"
    /\ o \in ActionOutcomes(run[i])
    /\ response' = [response EXCEPT ![i] = o]
    /\ ready' = Append(ready, Main(i))
    /\ sched' = [sched EXCEPT ![i] = "ready"]
    /\ UNCHANGED <<pc, run, started, args, msg_id, chat_id, msg, model_code, requests,
                   model, glb_filename, model_html, tasks, exc, events, disk,
                   cancel, extractVars, renderVars>>

\* Lines 368-390 and 199-229: render_model raised BlenderRenderError, which the
\* except clause reports.
RenderFailed(i, suspends) ==
    /\ Resumes(i, "posted")
    /\ RenderModel(response[i]).kind = "raise"
    /\ RenderModel(response[i]).exc = "BlenderRenderError"
    /\ Emit(i, ErrorMessage(RenderModel(response[i])))
    /\ pc' = [pc EXCEPT ![i] = "emitted error"]
    /\ ready' = AfterEmit(i, suspends)
    /\ sched' = [sched EXCEPT ![i] = IF suspends THEN "io" ELSE "running"]
    /\ UNCHANGED <<run, started, args, msg_id, chat_id, msg, model_code, requests,
                   response, model, glb_filename, model_html, tasks, exc, disk,
                   cancel, extractVars, renderVars>>

\* Lines 368-390 and 231-237: render_model raised something the except clause
\* does not name.
RenderRaisedOther(i, suspends) ==
    /\ Resumes(i, "posted")
    /\ RenderModel(response[i]).kind = "raise"
    /\ RenderModel(response[i]).exc # "BlenderRenderError"
    /\ RaiseThroughFinally(i, RenderModel(response[i]).exc, suspends)
    /\ UNCHANGED <<run, started, args, msg_id, chat_id, msg, model_code, requests,
                   response, model, glb_filename, model_html, tasks, disk, cancel, extractVars,
                   renderVars>>

\* Mutant of GenerateModelHtml: the filename carries the serial number of the
\* invocation instead of the number of files found.
GenerateModelHtml_UniqueNames(i, mkdir, suspends) ==
    /\ Resumes(i, "posted")
    /\ RenderModel(response[i]).kind = "return"
    /\ model' = [model EXCEPT ![i] = RenderModel(response[i]).value]
    /\ glb_filename' = [glb_filename EXCEPT ![i] =
           GlbFilename(chat_id[i], msg_id[i], run[i])]
    /\ IF mkdir = "fails"
       THEN /\ RaiseThroughFinally(i, "OSError", suspends)
            /\ UNCHANGED tasks
       ELSE /\ tasks' = [tasks EXCEPT ![i].write = "pending", ![i].template = "pending"]
            /\ pc' = [pc EXCEPT ![i] = "awaiting write"]
            /\ ready' = Tail(ready) \o <<Task(i, "write"), Task(i, "template")>>
            /\ sched' = [sched EXCEPT ![i] = "task"]
            /\ suspends
            /\ UNCHANGED <<exc, events>>
    /\ UNCHANGED <<run, started, args, msg_id, chat_id, msg, model_code, requests,
                   response, model_html, disk, cancel, extractVars, renderVars>>

\* Lines 383, 333 and 407-419: render_model returned the bytes;
\* generate_model_html counts the files, names the new one, makes the
\* directory and creates the two tasks, up to the await of the write task.
GenerateModelHtml(i, mkdir, suspends) ==
    /\ Resumes(i, "posted")
    /\ RenderModel(response[i]).kind = "return"
    /\ model' = [model EXCEPT ![i] = RenderModel(response[i]).value]
    /\ glb_filename' = [glb_filename EXCEPT ![i] =
           GlbFilename(chat_id[i], msg_id[i], ExistingModels(disk, chat_id[i], msg_id[i]))]
    /\ IF mkdir = "fails"
       THEN /\ RaiseThroughFinally(i, "OSError", suspends)
            /\ UNCHANGED tasks
       ELSE /\ tasks' = [tasks EXCEPT ![i].write = "pending", ![i].template = "pending"]
            /\ pc' = [pc EXCEPT ![i] = "awaiting write"]
            /\ ready' = Tail(ready) \o <<Task(i, "write"), Task(i, "template")>>
            /\ sched' = [sched EXCEPT ![i] = "task"]
            /\ suspends
            /\ UNCHANGED <<exc, events>>
    /\ UNCHANGED <<run, started, args, msg_id, chat_id, msg, model_code, requests,
                   response, model_html, disk, cancel, extractVars, renderVars>>

\* Lines 423-434: the write task runs; its end wakes the coroutine awaiting it.
\* A task cancelled before its first step ends without running its body.
RunWriteModelToCache(i, how) ==
    /\ ready # <<>>
    /\ Head(ready) = Task(i, "write")
    /\ IF tasks[i].write = "cancelling"
       THEN /\ disk' = disk
            /\ tasks' = [tasks EXCEPT ![i].write = "cancelled"]
       ELSE LET w == WriteModelToCache(disk, GlbFilepath(glb_filename[i]), model[i], how)
            IN  /\ disk' = w.disk
                /\ tasks' = [tasks EXCEPT ![i].write = w.task]
    /\ ready' = Append(Tail(ready), Main(i))
    /\ sched' = [sched EXCEPT ![i] = "ready"]
    /\ UNCHANGED <<pc, run, started, args, msg_id, chat_id, msg, model_code, requests,
                   response, model, glb_filename, model_html, exc, events, cancel, extractVars,
                   renderVars>>

\* Lines 436-455: the template task runs.
RunTemplateHtml(i) ==
    /\ ready # <<>>
    /\ Head(ready) = Task(i, "template")
    /\ model_html' = [model_html EXCEPT ![i] = TemplateHtml(glb_filename[i])]
    /\ tasks' = [tasks EXCEPT ![i].template = "done"]
    /\ ready' = Tail(ready)
    /\ UNCHANGED <<pc, sched, run, started, args, msg_id, chat_id, msg, model_code,
                   requests, response, model, glb_filename, exc, events, disk,
                   cancel, extractVars, renderVars>>

\* Line 419 with 231-237: the write task failed; its OSError leaves the try block.
WriteFailed(i, suspends) ==
    /\ Resumes(i, "awaiting write")
    /\ tasks[i].write = "failed"
    /\ RaiseThroughFinally(i, "OSError", suspends)
    /\ UNCHANGED <<run, started, args, msg_id, chat_id, msg, model_code, requests,
                   response, model, glb_filename, model_html, tasks, disk, cancel, extractVars,
                   renderVars>>

\* Lines 419-421, 336-339 and 158-170: the write task is done and so is the
\* template task; the conversion task is created and the status that closes
\* the rendering is emitted.
ModelRendered(i, suspends) ==
    /\ Resumes(i, "awaiting write")
    /\ tasks[i].write = "done"
    /\ tasks[i].template = "done"
    /\ tasks' = [tasks EXCEPT ![i].conversion = "pending"]
    /\ Emit(i, Status("Rendering 3d model...", TRUE))
    /\ pc' = [pc EXCEPT ![i] = "emitted rendered"]
    /\ ready' = Append(AfterEmit(i, suspends), Task(i, "conversion"))
    /\ sched' = [sched EXCEPT ![i] = IF suspends THEN "io" ELSE "running"]
    /\ UNCHANGED <<run, started, args, msg_id, chat_id, msg, model_code, requests,
                   response, model, glb_filename, model_html, exc, disk, cancel, extractVars,
                   renderVars>>

\* Lines 171-177.
EmitDisplaying(i, suspends) ==
    /\ Resumes(i, "emitted rendered")
    /\ Emit(i, Status("Displaying 3d model...", FALSE))
    /\ pc' = [pc EXCEPT ![i] = "emitted displaying"]
    /\ ready' = AfterEmit(i, suspends)
    /\ sched' = [sched EXCEPT ![i] = IF suspends THEN "io" ELSE "running"]
    /\ UNCHANGED <<run, started, args, msg_id, chat_id, msg, model_code, requests,
                   response, model, glb_filename, model_html, tasks, exc, disk,
                   cancel, extractVars, renderVars>>

\* Lines 178-186: the message with the display document.
EmitDocument(i, suspends) ==
    /\ Resumes(i, "emitted displaying")
    /\ Emit(i, DocumentMessage(model_html[i]))
    /\ pc' = [pc EXCEPT ![i] = "emitted document"]
    /\ ready' = AfterEmit(i, suspends)
    /\ sched' = [sched EXCEPT ![i] = IF suspends THEN "io" ELSE "running"]
    /\ UNCHANGED <<run, started, args, msg_id, chat_id, msg, model_code, requests,
                   response, model, glb_filename, model_html, tasks, exc, disk,
                   cancel, extractVars, renderVars>>

\* Lines 457-461: the conversion task runs, without an await of its own.  It
\* succeeds only on a completely written GLB, and may fail on any.  Its end
\* wakes the coroutine if that awaits it.  A task cancelled before its first
\* step ends without running its body.
ConvertGlbToObj(i, how) ==
    /\ ready # <<>>
    /\ Head(ready) = Task(i, "conversion")
    /\ LET glb_path == GlbFilepath(glb_filename[i])
       IN  IF tasks[i].conversion = "cancelling"
           THEN /\ disk' = disk
                /\ tasks' = [tasks EXCEPT ![i].conversion = "cancelled"]
           ELSE IF how = "ok" /\ glb_path \in DOMAIN disk /\ disk[glb_path].state = "complete"
           THEN /\ disk' = WriteFile(disk, WithSuffixObj(glb_path),
                                     [state |-> "complete",
                                      bytes |-> <<"obj of">> \o disk[glb_path].bytes])
                /\ tasks' = [tasks EXCEPT ![i].conversion = "done"]
           ELSE /\ disk' = disk
                /\ tasks' = [tasks EXCEPT ![i].conversion = "failed"]
    /\ IF pc[i] = "awaiting conversion"
       THEN /\ ready' = Append(Tail(ready), Main(i))
            /\ sched' = [sched EXCEPT ![i] = "ready"]
       ELSE /\ ready' = Tail(ready)
            /\ UNCHANGED sched
    /\ UNCHANGED <<pc, run, started, args, msg_id, chat_id, msg, model_code, requests,
                   response, model, glb_filename, model_html, exc, events, cancel, extractVars,
                   renderVars>>

\* Line 188: the conversion task has not run yet; awaiting it suspends the
\* coroutine.
AwaitConversion(i) ==
    /\ Resumes(i, "emitted document")
    /\ tasks[i].conversion = "pending"
    /\ pc' = [pc EXCEPT ![i] = "awaiting conversion"]
    /\ ready' = Tail(ready)
    /\ sched' = [sched EXCEPT ![i] = "task"]
    /\ UNCHANGED <<run, started, args, msg_id, chat_id, msg, model_code, requests,
                   response, model, glb_filename, model_html, tasks, exc, events, disk,
                   cancel, extractVars, renderVars>>

\* Lines 188-198: the conversion is done; the download link is emitted.
EmitLink(i, suspends) ==
    /\ ready # <<>>
    /\ Head(ready) = Main(i)
    /\ cancel[i] # "requested"
    /\ pc[i] \in {"emitted document", "awaiting conversion"}
    /\ tasks[i].conversion = "done"
    /\ Emit(i, LinkMessage(RelativeToData(WithSuffixObj(GlbFilepath(glb_filename[i])))))
    /\ pc' = [pc EXCEPT ![i] = "emitted link"]
    /\ ready' = AfterEmit(i, suspends)
    /\ sched' = [sched EXCEPT ![i] = IF suspends THEN "io" ELSE "running"]
    /\ UNCHANGED <<run, started, args, msg_id, chat_id, msg, model_code, requests,
                   response, model, glb_filename, model_html, tasks, exc, disk,
                   cancel, extractVars, renderVars>>

\* Line 188 with 231-237: the conversion failed; its exception leaves the try
\* block.
ConversionFailed(i, suspends) ==
    /\ ready # <<>>
    /\ Head(ready) = Main(i)
    /\ cancel[i] # "requested"
    /\ pc[i] \in {"emitted document", "awaiting conversion"}
    /\ tasks[i].conversion = "failed"
    /\ RaiseThroughFinally(i, "ConversionError", suspends)
    /\ UNCHANGED <<run, started, args, msg_id, chat_id, msg, model_code, requests,
                   response, model, glb_filename, model_html, tasks, disk, cancel, extractVars,
                   renderVars>>

\* Lines 231-237: the finally clause, after the try block or the except clause
\* ran to its end.
Finally(i, suspends) ==
    /\ ready # <<>>
    /\ Head(ready) = Main(i)
    /\ cancel[i] # "requested"
    /\ pc[i] \in {"emitted link", "emitted error"}
    /\ Emit(i, Status("Displaying 3d model...", TRUE))
    /\ pc' = [pc EXCEPT ![i] = "emitted final status"]
    /\ ready' = AfterEmit(i, suspends)
    /\ sched' = [sched EXCEPT ![i] = IF suspends THEN "io" ELSE "running"]
    /\ UNCHANGED <<run, started, args, msg_id, chat_id, msg, model_code, requests,
                   response, model, glb_filename, model_html, tasks, exc, disk,
                   cancel, extractVars, renderVars>>

\* Line 238: action returns, or the pending exception is raised to the host.
Finish(i) ==
    /\ Resumes(i, "emitted final status")
    /\ pc' = [pc EXCEPT ![i] = IF exc[i] = "none" THEN "returned" ELSE "raised"]
    /\ ready' = Tail(ready)
    /\ sched' = [sched EXCEPT ![i] = "off"]
    /\ UNCHANGED <<run, started, args, msg_id, chat_id, msg, model_code, requests,
                   response, model, glb_filename, model_html, tasks, exc, events, disk,
                   cancel, extractVars, renderVars>>

\* The host cancels the task that runs action, while the coroutine is
\* suspended or queued: Task.cancel() cancels what the coroutine awaits, or
\* marks the task so that its next step throws CancelledError.  An awaited
\* emitter or POST ends at once; an awaited task that has not run yet is
\* cancelled and ends at its first step.
Cancel(i) ==
    /\ cancel[i] = "no"
    /\ sched[i] \in {"io", "task", "ready"}
    /\ cancel' = [cancel EXCEPT ![i] = "requested"]
    /\ IF sched[i] = "io"
       THEN /\ ready' = Append(ready, Main(i))
            /\ sched' = [sched EXCEPT ![i] = "ready"]
            /\ UNCHANGED tasks
       ELSE IF sched[i] = "task"
       THEN /\ tasks' = IF pc[i] = "awaiting write"
                        THEN [tasks EXCEPT ![i].write = "cancelling"]
                        ELSE [tasks EXCEPT ![i].conversion = "cancelling"]
            /\ UNCHANGED <<ready, sched>>
       ELSE UNCHANGED <<ready, sched, tasks>>
    /\ UNCHANGED <<pc, run, started, args, msg_id, chat_id, msg, model_code, requests,
                   response, model, glb_filename, model_html, exc, events, disk,
                   extractVars, renderVars>>

\* The coroutine resumes with CancelledError thrown at the await it is
\* suspended at.  No except clause names it: before the try block and in the
\* finally clause it leaves action at once, elsewhere through the finally
\* clause (lines 231-237).  A call that has not started never runs.
Cancelled(i, suspends) ==
    /\ ready # <<>>
    /\ Head(ready) = Main(i)
    /\ cancel[i] = "requested"
    /\ cancel' = [cancel EXCEPT ![i] = "thrown"]
    /\ IF pc[i] \in {"called", "emitted writing", "emitted written", "emitted no code",
                     "emitted rendering", "emitted final status"}
       THEN /\ exc' = [exc EXCEPT ![i] = "CancelledError"]
            /\ pc' = [pc EXCEPT ![i] = "raised"]
            /\ ready' = Tail(ready)
            /\ sched' = [sched EXCEPT ![i] = "off"]
            /\ UNCHANGED events
       ELSE RaiseThroughFinally(i, "CancelledError", suspends)
    /\ UNCHANGED <<run, started, args, msg_id, chat_id, msg, model_code, requests,
                   response, model, glb_filename, model_html, tasks, disk, extractVars,
                   renderVars>>

\* The steps of invocation i after its call.
Step(i) ==
    \/ EmitterReturns(i)
    \/ \E suspends \in BOOLEAN : Begin(i, suspends)
    \/ \E suspends \in BOOLEAN : ExtractModelCode(i, suspends)
    \/ \E suspends \in BOOLEAN : CheckModelCode(i, suspends)
    \/ ReturnNoCode(i)
    \/ PostCreateModel(i)
    \/ \E o \in ActionOutcomes(run[i]) : PostEnds(i, o)
    \/ \E suspends \in BOOLEAN : RenderFailed(i, suspends)
    \/ \E suspends \in BOOLEAN : RenderRaisedOther(i, suspends)
    \/ \E mkdir \in {"ok", "fails"}, suspends \in BOOLEAN :
           GenerateModelHtml(i, mkdir, suspends)
    \/ \E how \in WriteOutcomes : RunWriteModelToCache(i, how)
    \/ RunTemplateHtml(i)
    \/ \E suspends \in BOOLEAN : WriteFailed(i, suspends)
    \/ \E suspends \in BOOLEAN : ModelRendered(i, suspends)
    \/ \E suspends \in BOOLEAN : EmitDisplaying(i, suspends)
    \/ \E suspends \in BOOLEAN : EmitDocument(i, suspends)
    \/ \E how \in {"ok", "fails"} : ConvertGlbToObj(i, how)
    \/ AwaitConversion(i)
    \/ \E suspends \in BOOLEAN : EmitLink(i, suspends)
    \/ \E suspends \in BOOLEAN : ConversionFailed(i, suspends)
    \/ \E suspends \in BOOLEAN : Finally(i, suspends)
    \/ Finish(i)

\* The arguments of a call: __event_call__ is None only in calls whose message
\* has no model code.
ActionArgs ==
    {[body |-> b, event_call |-> "callable"] : b \in BodyInputs}
    \cup {[body |-> b, event_call |-> "None"] :
              b \in {x \in BodyInputs : GetMsg(x.messages, x.id).content = <<>>}}

Next ==
    \E i \in Invocations :
        \/ \E a \in ActionArgs : Start(i, a.body, a.event_call)
        \/ Step(i)

Spec == Init /\ [][Next]_vars

\* The invocations run one after another: each is called after the one before
\* has ended.
NextSequential ==
    \/ \E a \in ActionArgs : Start(1, a.body, a.event_call)
    \/ \E a \in ActionArgs : StartAgain(1, a.body, a.event_call)
    \/ Step(1)

SpecSequential == Init /\ [][NextSequential]_vars

\* One invocation that the host may cancel.
NextCancel ==
    \/ \E a \in ActionArgs : Start(1, a.body, a.event_call)
    \/ Step(1)
    \/ Cancel(1)
    \/ \E suspends \in BOOLEAN : Cancelled(1, suspends)

SpecCancel == Init /\ [][NextCancel]_vars

-----------------------------------------------------------------------------
(* Shapes of messages, read off the lines of the message *)

IsFence(l) == l = Opener \/ l = Closer

\* The positions of the fence lines of a message, in order.
FencePositions(c) ==
    LET lines == Split(c)
    IN  SelectSeq([i \in 1..Len(lines) |-> i], LAMBDA i : IsFence(Split(c)[i]))

\* The lines strictly between positions a and b, joined.
Between(c, a, b) == Join(SubSeq(Split(c), a + 1, b - 1))

NoFencedBlock(c) == FencePositions(c) = <<>>

\* The fence lines are opener, closer, opener, closer, ...: complete blocks only.
OnlyCompleteBlocks(c) ==
    LET p == FencePositions(c)
    IN  /\ Len(p) > 0
        /\ Len(p) % 2 = 0
        /\ \A k \in 1..Len(p) :
              Split(c)[p[k]] = (IF k % 2 = 1 THEN Opener ELSE Closer)

\* Every block of the message lacks the entry point.
OnlyInvalidBlocks(c) ==
    LET p == FencePositions(c)
    IN  /\ OnlyCompleteBlocks(c)
        /\ \A k \in 1..Len(p) :
              k % 2 = 1 => ~HasMarker(Between(c, p[k], p[k + 1]))

\* One block without the entry point, then one block with it; text around them.
InvalidThenValid(c) ==
    LET p == FencePositions(c)
    IN  /\ OnlyCompleteBlocks(c)
        /\ Len(p) = 4
        /\ ~HasMarker(Between(c, p[1], p[2]))
        /\ HasMarker(Between(c, p[3], p[4]))

SecondBlock(c) == LET p == FencePositions(c) IN Between(c, p[3], p[4])

-----------------------------------------------------------------------------
(* Claims about get_model_code, under SpecExtract *)

\* C2: a message of one rejected block followed by one valid block, with
\* fence-free text before, between and after, yields the valid block's lines.
C2_BacktracksToValidBlock ==
    (result # NoResult /\ InvalidThenValid(content))
        => result = [kind |-> "return", value |-> SecondBlock(content)]

\* C2 witness: such a message with text in all three places was searched.
C2_Witness ==
    /\ result # NoResult
    /\ InvalidThenValid(content)
    /\ depth = 2
    /\ LET p == FencePositions(content)
       IN  p[1] > 1 /\ p[3] > p[2] + 1 /\ p[4] < Len(Split(content))

\* C3 as stated: any message without a fence line, empty or not, yields the
\* empty string and no error.
C3_Original ==
    (result # NoResult /\ NoFencedBlock(content))
        => result = [kind |-> "return", value |-> <<>>]

\* C3 as amended: without a fence line, the empty message yields the empty
\* string and every non-empty message raises ValueError.
C3_NoFenceEmptyOrValueError ==
    (result # NoResult /\ NoFencedBlock(content))
        => result = (IF content = <<>>
                     THEN [kind |-> "return", value |-> <<>>]
                     ELSE [kind |-> "raise", value |-> <<"ValueError">>])

\* C3 witness: a non-empty message of several fence-free lines was searched.
C3_Witness ==
    /\ result.kind = "raise"
    /\ NoFencedBlock(content)
    /\ Len(Split(content)) >= 2

\* C4: a message whose blocks are all complete and all lack the entry point
\* ends in ValueError, whatever follows the last block.
C4_OnlyInvalidBlocksRaise ==
    (result # NoResult /\ OnlyInvalidBlocks(content))
        => result = [kind |-> "raise", value |-> <<"ValueError">>]

-----------------------------------------------------------------------------
(* Claims about render_model, under SpecRender *)

\* The request failed: no response, or a response with status in [400,600).
RequestFailed(o) ==
    \/ o.kind = "RequestError"
    \/ o.kind = "response" /\ 400 <= o.status_code /\ o.status_code < 600

\* C7: every failing outcome yields a BlenderRenderError whose fields follow
\* the table: transport failure, JSON body, body that is no JSON.
C7_EveryFailureClassified ==
    (rendered # NoResult /\ RequestFailed(outcome))
        => /\ rendered.kind = "raise"
           /\ rendered.exc = "BlenderRenderError"
           /\ outcome.kind = "RequestError"
                 => /\ rendered.message = <<"Network error: ">> \o outcome.text
                    /\ rendered.details = Guidance
                    /\ rendered.blender_log = <<>>
           /\ (outcome.kind = "response" /\ outcome.body.json = "JSONDecodeError")
                 => /\ rendered.message = <<"HTTP ", ToString(outcome.status_code)>>
                    /\ rendered.details = outcome.body.raw
                    /\ rendered.blender_log = <<>>
           /\ (outcome.kind = "response" /\ outcome.body.json = "object"
                  /\ DOMAIN outcome.body.fields = ErrorFields)
                 => /\ rendered.message = outcome.body.fields["error"]
                    /\ rendered.details = outcome.body.fields["details"]
                    /\ rendered.blender_log = outcome.body.fields["blender_log"]

\* C8 as stated: every response with status in [200,400) is returned as bytes.
C8_Original ==
    (rendered # NoResult /\ outcome.kind = "response"
        /\ 200 <= outcome.status_code /\ outcome.status_code < 400)
        => rendered = [kind |-> "return", value |-> outcome.body.raw]

\* C8 as amended: a response with status in [200,300) is returned as bytes and
\* nothing is raised; with status in [300,400) raise_for_status raises
\* HTTPStatusError.
C8_SuccessStatusReturnsBytes ==
    (rendered # NoResult /\ outcome.kind = "response")
        => /\ (200 <= outcome.status_code /\ outcome.status_code < 300)
                 => rendered = [kind |-> "return", value |-> outcome.body.raw]
           /\ (300 <= outcome.status_code /\ outcome.status_code < 400)
                 => rendered = Raise("HTTPStatusError")

\* C8 witness: a 2xx response other than 200 came back as its bytes.
C8_Witness ==
    /\ rendered.kind = "return"
    /\ outcome.status_code = 299
    /\ rendered.value = <<"glTF", "bytes">>

-----------------------------------------------------------------------------
(* Claims about Action.action, under Spec and SpecSequential *)

\* The events of invocation i that satisfy P.
HasEvent(i, P(_)) == \E k \in 1..Len(events[i]) : P(events[i][k])

\* The file a document's src names: the host serves /cache/... from data/cache/...
ServedPath(src) == <<"data/">> \o Tail(src)

\* The files in the model cache that are artifacts of (chat, mid): named
\* f"{chat}-model-{mid}-{n}.glb" for some n.
ArtifactsOf(d, chat, mid) ==
    LET prefix == chat \o <<"-model-">> \o mid
    IN  {name \in FilesIn(d, ModelCache) :
            /\ Len(name) = Len(prefix) + 3
            /\ SubSeq(name, 1, Len(prefix)) = prefix
            /\ name[Len(prefix) + 1] = "-"
            /\ name[Len(name)] = ".glb"}

\* C1 as stated: whenever a display document has been emitted, the file its
\* src names exists and is completely written.
C1_Original ==
    \A i \in Invocations : \A k \in 1..Len(events[i]) :
        IsDocument(events[i][k])
            => LET p == ServedPath(DocumentSrc(events[i][k]))
               IN  p \in DOMAIN disk /\ disk[p].state = "complete"

\* C1 as amended: a display document is emitted only after the invocation's
\* own write_model_to_cache for that filename has completed; from then on the
\* file its src names exists, and it is completely written unless an
\* overlapping invocation that chose the same filename failed while writing it.
C1_DocumentAfterOwnWrite ==
    \A i \in Invocations : \A k \in 1..Len(events[i]) :
        IsDocument(events[i][k])
            => LET p == ServedPath(DocumentSrc(events[i][k]))
               IN  /\ tasks[i].write = "done"
                   /\ p = GlbFilepath(glb_filename[i])
                   /\ p \in DOMAIN disk
                   /\ \/ disk[p].state = "complete"
                      \/ \E j \in Invocations \ {i} :
                            /\ glb_filename[j] = glb_filename[i]
                            /\ tasks[j].write = "failed"

\* C1 witness: a document has been emitted and its file is completely written.
C1_Witness ==
    \E i \in Invocations :
        /\ HasEvent(i, IsDocument)
        /\ GlbFilepath(glb_filename[i]) \in DOMAIN disk
        /\ disk[GlbFilepath(glb_filename[i])].state = "complete"
        /\ disk[GlbFilepath(glb_filename[i])].bytes = model[i]

\* C5: when generate_model_html has chosen the filename and the write has not
\* run yet, the filename carries the number of artifacts of (chat_id, msg_id)
\* in the cache, whatever else the cache holds.
C5_SequenceIsArtifactCount ==
    (pc[1] = "awaiting write" /\ tasks[1].write = "pending")
        => glb_filename[1]
             = GlbFilename(chat_id[1], msg_id[1],
                           Cardinality(ArtifactsOf(disk, chat_id[1], msg_id[1])))

\* C6: when the invocations run one after another, no file of the cache is
\* ever written a second time: every write creates its file.
C6_NoOverwrite ==
    [][\A p \in DOMAIN disk : p \in DOMAIN disk' /\ disk'[p] = disk[p]]_vars

\* C6 witness: the third invocation for one message has written its artifact
\* beside the two written before.
C6_Witness ==
    /\ started = 3
    /\ tasks[1].write = "done"
    /\ \E k \in Keys : Cardinality(ArtifactsOf(disk, k.chat_id, k.id)) = 3

\* C9: once render_model has raised BlenderRenderError, the invocation has emitted
\* an error message whose content holds the message, the details and the
\* Blender log of the error, and it has emitted no display document.
C9_RenderErrorReported ==
    \A i \in Invocations :
        (/\ pc[i] \in {"emitted error", "emitted final status", "returned", "raised"}
         /\ response[i] # NoResult
         /\ RenderModel(response[i]).kind = "raise"
         /\ RenderModel(response[i]).exc = "BlenderRenderError")
            => /\ \E k \in 1..Len(events[i]) :
                     /\ IsError(events[i][k])
                     /\ Contains(events[i][k].data.content, RenderModel(response[i]).message)
                     /\ Contains(events[i][k].data.content, RenderModel(response[i]).details)
                     /\ Contains(events[i][k].data.content,
                                 RenderModel(response[i]).blender_log)
               /\ ~HasEvent(i, IsDocument)

\* C9 witness: an invocation whose render server answered 500 with a JSON error
\* has run to its end.
C9_Witness ==
    \E i \in Invocations :
        /\ pc[i] = "returned"
        /\ response[i] # NoResult
        /\ response[i].kind = "response"
        /\ response[i].body.json = "object"
        /\ HasEvent(i, IsError)

\* An opener line with no closer line anywhere in the message.
OpenerWithoutCloser(c) ==
    /\ Index(Split(c), Opener) # 0
    /\ Index(Split(c), Closer) = 0

\* C10: an invocation on a message without a valid block (no fence at all, an
\* opener without a closer, or rejected blocks only) ends by returning, after
\* the status "No model code found!" with done = TRUE, and posts nothing.
C10_NoCodeIsGraceful ==
    \A i \in Invocations :
        (/\ pc[i] \in {"returned", "raised"}
         /\ events[i] # <<>>
         /\ \/ NoFencedBlock(msg[i].content)
            \/ OpenerWithoutCloser(msg[i].content)
            \/ OnlyInvalidBlocks(msg[i].content))
            => /\ pc[i] = "returned"
               /\ events[i][Len(events[i])] = Status("No model code found!", TRUE)
               /\ requests[i] = <<>>

-----------------------------------------------------------------------------
(* Termination and exhaustiveness of get_model_code *)

\* C15: every recursive call of get_model_code receives strictly fewer lines
\* than its caller, and the number of calls never exceeds the number of lines
\* of the content: the call that would exceed it is never made, so the
\* outermost call has ended by then.
C15_RecursionShrinksAndEnds ==
    /\ [][(depth' = depth + 1 /\ result' = NoResult)
             => Len(Split(remaining')) < Len(Split(remaining))]_vars
    /\ [](depth <= Len(Split(content)))
    /\ [](depth = Len(Split(content)) => result # NoResult)

\* C15 witness: the search ended after two recursive calls.
C15_Witness ==
    /\ result # NoResult
    /\ depth = 3
    /\ Len(Split(content)) >= 5

\* A valid candidate: an opener line, the next closer line after it, and the
\* entry point in the lines between them.
HasValidCandidate(c) ==
    LET lines == Split(c)
    IN  \E a, b \in 1..Len(lines) :
            /\ a < b
            /\ lines[a] = Opener
            /\ lines[b] = Closer
            /\ \A k \in (a + 1)..(b - 1) : lines[k] # Closer
            /\ HasMarker(Between(c, a, b))

\* C16: whenever the message holds a valid candidate, get_model_code returns
\* a block with the entry point, whatever precedes the candidate.
C16_ValidCandidateIsFound ==
    (result # NoResult /\ HasValidCandidate(content))
        => (result.kind = "return" /\ HasMarker(result.value))

-----------------------------------------------------------------------------
(* Claims about the steps of Action.action after extraction, under Spec *)

Ended(i) == pc[i] \in {"returned", "raised"}

\* render_model has handled an outcome of the POST that is a failure: no
\* response, or a response whose status is no success status.
RenderCallFailed(i) ==
    /\ response[i] # NoResult
    /\ pc[i] # "posted"
    /\ \/ response[i].kind = "RequestError"
       \/ response[i].kind = "response"
            /\ ~(200 <= response[i].status_code /\ response[i].status_code <= 299)

\* The cache write failed: the write task, or mkdir before it.
CacheWriteFailed(i) == tasks[i].write = "failed" \/ exc[i] = "OSError"

\* C11: after a failed render call or a failed cache write the invocation
\* emits no display document and no download link and creates no conversion
\* task; after a failed render call it creates no write task either, so it
\* writes no file.
C11_FailureAbortsPipeline ==
    \A i \in Invocations :
        /\ RenderCallFailed(i)
              => /\ ~HasEvent(i, IsDocument)
                 /\ ~HasEvent(i, IsLink)
                 /\ tasks[i] = NoTasks
                 /\ glb_filename[i] = <<>>
        /\ CacheWriteFailed(i)
              => /\ ~HasEvent(i, IsDocument)
                 /\ ~HasEvent(i, IsLink)
                 /\ tasks[i].conversion = "none"

\* C11 witness: an invocation whose write failed half way has ended, and one
\* whose render call failed has ended.
C11_Witness ==
    /\ \E i \in Invocations :
           /\ Ended(i)
           /\ tasks[i].write = "failed"
           /\ GlbFilepath(glb_filename[i]) \in DOMAIN disk
           /\ disk[GlbFilepath(glb_filename[i])].state = "partial"
    /\ \E i \in Invocations : Ended(i) /\ RenderCallFailed(i)

\* C12: an invocation whose conversion failed ends by returning, with its
\* display document emitted, no error message, and only the link missing.
C12_ConversionFailureIsIsolated ==
    \A i \in Invocations :
        (Ended(i) /\ tasks[i].conversion = "failed")
            => /\ pc[i] = "returned"
               /\ HasEvent(i, IsDocument)
               /\ ~HasEvent(i, IsError)
               /\ ~HasEvent(i, IsLink)

\* The artifact files of the cache that a step creates or changes.
WrittenArtifacts ==
    {p \in DOMAIN disk' :
        /\ p[Len(p)] = ".glb"
        /\ (p \notin DOMAIN disk \/ disk'[p] # disk[p])}

\* C13: an invocation that returned with its document emitted has run its
\* write task once, the task wrote one file, the bytes of the response, at
\* data/cache/blender_render/models/<filename>, and the document's src names
\* that file; no other step writes an artifact.
C13_OneArtifactAsRendered ==
    /\ [](\A i \in Invocations :
             (pc[i] = "returned" /\ HasEvent(i, IsDocument))
                 => /\ tasks[i].write = "done"
                    /\ model[i] = response[i].body.raw
                    /\ \A k \in 1..Len(events[i]) :
                          IsDocument(events[i][k])
                              => ServedPath(DocumentSrc(events[i][k]))
                                   = ModelCache \o glb_filename[i])
    /\ [][\A i \in Invocations :
             (tasks[i].write = "pending" /\ tasks'[i].write = "done")
                 => /\ WrittenArtifacts = {ModelCache \o glb_filename[i]}
                    /\ disk'[ModelCache \o glb_filename[i]]
                         = [state |-> "complete", bytes |-> model[i]]]_vars
    /\ [][WrittenArtifacts # {}
             => \E i \in Invocations :
                    tasks[i].write = "pending" /\ tasks'[i].write # "pending"]_vars
    /\ [][\A i \in Invocations :
             tasks[i].write \in {"done", "failed"} => tasks'[i].write = tasks[i].write]_vars

\* C13 witness: an invocation has returned, its document and link emitted, and
\* the file its document names holds the bytes of its response.
C13_Witness ==
    \E i \in Invocations :
        /\ pc[i] = "returned"
        /\ HasEvent(i, IsDocument)
        /\ HasEvent(i, IsLink)
        /\ disk[ModelCache \o glb_filename[i]].bytes = response[i].body.raw

\* C14: an invocation posts at most once, only after get_model_code returned
\* a non-empty block with the entry point, and the payload is that block.
C14_OnePostOfTheBlock ==
    \A i \in Invocations :
        /\ Len(requests[i]) <= 1
        /\ requests[i] # <<>>
              => /\ model_code[i] # <<>>
                 /\ \E k \in 1..Len(model_code[i]) : model_code[i][k] = Marker
                 /\ requests[i][1].model_code = model_code[i]
                 /\ GetModelCode(msg[i].content)
                      = [kind |-> "return", value |-> model_code[i]]

\* C14 witness: an invocation whose only POST failed has ended.
C14_Witness ==
    \E i \in Invocations :
        /\ Ended(i)
        /\ Len(requests[i]) = 1
        /\ response[i] # NoResult
        /\ response[i].kind = "RequestError"

SameMessage(i, j) ==
    /\ i # j
    /\ chat_id[i] # <<>>
    /\ chat_id[i] = chat_id[j]
    /\ msg_id[i] = msg_id[j]

\* C17: two invocations for one message that have both counted the files
\* before either has written have chosen the same filename; once both have
\* written, the one file holds the bytes of one of them, and their documents
\* name that same file.
C17_SameCountSameFile ==
    \A i, j \in Invocations :
        SameMessage(i, j)
            => /\ (tasks[i].write = "pending" /\ tasks[j].write = "pending")
                     => glb_filename[i] = glb_filename[j]
               /\ (tasks[i].write = "done" /\ tasks[j].write = "done"
                      /\ glb_filename[i] = glb_filename[j])
                     => /\ disk[ModelCache \o glb_filename[i]].bytes \in {model[i], model[j]}
                        /\ \A k \in 1..Len(events[i]), l \in 1..Len(events[j]) :
                              (IsDocument(events[i][k]) /\ IsDocument(events[j][l]))
                                  => DocumentSrc(events[i][k]) = DocumentSrc(events[j][l])

\* C17 witness: both invocations counted before either wrote, the second
\* write replaced the first invocation's artifact, and both documents are out.
C17_Witness ==
    /\ SameMessage(1, 2)
    /\ glb_filename[1] = glb_filename[2]
    /\ tasks[1].write = "done"
    /\ tasks[2].write = "done"
    /\ model[1] # model[2]
    /\ disk[ModelCache \o glb_filename[1]].bytes = model[2]
    /\ HasEvent(1, IsDocument)
    /\ HasEvent(2, IsDocument)

\* C18: the conversion never runs while the coroutine that created it is
\* ready to go on and has not yet emitted its display document.
C18_ConversionNeverDelaysDocument ==
    [][\A i \in Invocations :
          (tasks[i].conversion = "pending" /\ tasks'[i].conversion # "pending")
              => ~(sched[i] = "ready" /\ ~HasEvent(i, IsDocument))]_vars

\* C20: an invocation that entered the try block and ended has emitted the
\* status "Displaying 3d model..." with done = TRUE as its last event, and it
\* emits nothing after that status.
C20_FinalStatusIsLast ==
    /\ [](\A i \in Invocations :
             (Ended(i) /\ requests[i] # <<>>)
                 => events[i][Len(events[i])] = Status("Displaying 3d model...", TRUE))
    /\ [][\A i \in Invocations :
             pc[i] = "emitted final status" => events'[i] = events[i]]_vars

\* C20 witness: an invocation whose conversion failed has ended, its document
\* emitted and the closing status its last event.
C20_Witness ==
    \E i \in Invocations :
        /\ Ended(i)
        /\ exc[i] = "ConversionError"
        /\ HasEvent(i, IsDocument)
        /\ events[i][Len(events[i])] = Status("Displaying 3d model...", TRUE)

-----------------------------------------------------------------------------
(* Claims about cancellation, under SpecCancel *)

\* C19: once a cancelled invocation has ended, every artifact it wrote is
\* named by a display document it emitted, none of its tasks is still to run,
\* and its POST, if still in flight at the cancellation, got no response.
C19_CancelLeavesNothingBehind ==
    \A i \in Invocations :
        (cancel[i] = "thrown" /\ Ended(i))
            => /\ tasks[i].write = "done" => HasEvent(i, IsDocument)
               /\ tasks[i].write # "pending"
               /\ tasks[i].conversion # "pending"

====
